---- MODULE Spec2Model ----
(***************************************************************************)
(* Agent Compiler Service of next-agentify.                                *)
(*                                                                         *)
(* The model follows src/src/lib/compiler/agent-compiler-interface.ts:     *)
(* the factory createAgentCompilerService (output directory, toolchain     *)
(* check, optional install, service object) and the methods of the service *)
(* it returns.  The AgentCompiler class the factory imports from '.' is    *)
(* not part of the sources at hand; its methods (checkToolchain,           *)
(* installToolchain, compileAgent) are modelled from sections 4.2-4.5 of   *)
(* the specification and are marked as such where they are defined.        *)
(***************************************************************************)
EXTENDS Integers, Sequences, FiniteSets, TLC

\* Number of compileAgent calls made on one service object.
MaxCompiles == 2

Tools == {"go", "python", "gcc"}

PersistentDir == "public/output"
TransientDir == "/tmp/agentify-output"
Dirs == {PersistentDir, TransientDir}

\* What the file system does with a directory: it is there, mkdirSync would
\* create it, or mkdirSync throws.
DirStates == {"exists", "creatable", "blocked"}

Terminal == {"Succeeded", "Failed", "Degraded"}

VARIABLES
    env,              \* process.env: [production, serverless]
    fs,               \* [Dirs -> DirStates]
    host,             \* [Tools -> BOOLEAN]: tools installed on the machine
    uiConfig,         \* the raw input of the request
    pc,               \* position inside createAgentCompilerService
    defaultOutputDir, \* local of the factory, captured by the service
    toolchain,        \* result of compiler.checkToolchain(), "none" before
    mockMode,         \* the factory took the missing branch and no install succeeded
    state,            \* orchestrator state of the request
    error,            \* error kind of a failed request
    descriptor,       \* "none" or "valid": result of convertUIConfigToPluginConfig
    compilationLogs,  \* the compiler's log (getCompilationLogs)
    artifact,         \* "none", "module" or "placeholder"
    retrieved,        \* what the caller last read through getCompilationLogs
    console,          \* console.warn / console.log / console.error lines
    installOutcome,   \* "none", "ok", "failed"
    buildOutcome,     \* "none", "ok", "error" (of the current compileAgent call)
    mkdirCalls, detectCalls, installCalls, missingEntries,
    renderCalls, buildCalls, compiles

\* One call of convertUIConfigToPluginConfig looked at on its own.
VARIABLES
    rawInput,         \* the argument of the call
    result,           \* what the call threw or returned
    second,           \* the same for a call on the descriptor handed back as input
    uuidNext          \* the value the next uuidv4() returns

normVars == <<rawInput, result, second, uuidNext>>

\* Several requests served at the same time by one process.
VARIABLES
    cpc,              \* per request: position in the factory and in the compile
    ctoolchain,       \* per request: what its checkToolchain() returned
    installing,       \* per request: the tools its installToolchain() is installing
    descId,           \* per request: agent_id of the descriptor it compiles
    workDir,          \* per request: the directory it renders and builds in
    suffixNext        \* the next request-scoped suffix

concVars == <<cpc, ctoolchain, installing, descId, workDir, suffixNext>>

orchVars == <<env, fs, host, uiConfig, pc, defaultOutputDir, toolchain, mockMode,
              state, error, descriptor, compilationLogs, artifact, retrieved,
              console, installOutcome, buildOutcome, mkdirCalls, detectCalls,
              installCalls, missingEntries, renderCalls, buildCalls, compiles>>

\* The output directory as the compiler and the caller get to see it.
VARIABLES
    compilerOutputDir, \* third argument of new AgentCompiler(...) (line 194)
    reportedDir        \* what getDefaultOutputDir() last returned, if called

dirVars == <<compilerOutputDir, reportedDir>>

\* One client of the register-agent route (src/src/app/api/register-agent/route.ts).
VARIABLES
    rreq,             \* the request being handled: method, authorization header, body
    rpc,              \* position inside the handler
    ruser,            \* user of supabase.auth.getUser(token), if any
    rresp,            \* the response of the handler, if it has answered
    rops,             \* operations on agent_configs made for this request
    rtable,           \* agent_configs: one row per user_id
    rcount            \* requests received so far

routeVars == <<rreq, rpc, ruser, rresp, rops, rtable, rcount>>

\* Components that use the useSSE hook (src/src/hooks/useSSE.ts) under one
\* AuthProvider, all on the SSEManager singleton.
VARIABLES
    mounted,          \* per hook: the component is mounted
    autoConn,         \* per hook: options.autoConnect
    msgRef,           \* per hook: messageListenerRef.current
    statusRef,        \* per hook: statusListenerRef.current
    hasConnected,     \* per hook: the local of the current run of the third effect
    mgr,              \* the SSEManager: listeners, status listeners, connection
    accessToken,      \* user?.accessToken of useAuth(), "none" when undefined
    lastCalls,        \* the calls on the SSEManager made by the last step, in order
    lastStep,         \* the last step: what happened and to which hook
    cleanupCloses,    \* SSEManager.cleanup() closes the connection, or not
    connectReplaces   \* SSEManager.connect() replaces an open connection, or keeps it

sseVars == <<mounted, autoConn, msgRef, statusRef, hasConnected, mgr,
             accessToken, lastCalls, lastStep, cleanupCloses, connectReplaces>>

\* The AuthProvider component (route.ts, lines 164-321).
VARIABLES
    authPc,           \* position of the provider's effect and of initializeAuth
    authLoading,      \* authState.loading
    authUser,         \* authState.user is set
    subscribed,       \* the provider's subscription to the auth service is active
    storedUser,       \* supabaseAuthService.getCurrentUser() is not null
    validation,       \* how validateToken() settled: "none", "true", "false", "throws"
    logoutCalls,      \* logout() calls made by initializeAuth
    notifications     \* states published by the auth service so far

authVars == <<authPc, authLoading, authUser, subscribed, storedUser, validation,
              logoutCalls, notifications>>

laterVars == <<routeVars, sseVars, authVars>>

otherVars == <<normVars, concVars, laterVars>>

vars == <<orchVars, dirVars, otherVars>>

\* Raw inputs: whether the input is an object at all and which of the
\* destructured fields are truthy.
RawInputs ==
    [isObject : BOOLEAN, name : BOOLEAN, personality : BOOLEAN,
     instructions : BOOLEAN, settings : BOOLEAN]

\* The two guards without the test of settings.
ValidUIConfigNoSettings(u) ==
    /\ u.isObject
    /\ u.name /\ u.personality /\ u.instructions

\* Lines 221 and 235: the two guards of convertUIConfigToPluginConfig.
ValidUIConfig(u) ==
    /\ u.isObject
    /\ u.name /\ u.personality /\ u.instructions /\ u.settings

(***************************************************************************)
(* convertUIConfigToPluginConfig in full (lines 220-378).                  *)
(*                                                                         *)
(* An optional value is a sequence of length 0 (undefined) or 1.  A        *)
(* display name is a sequence of characters; the other texts are strings,  *)
(* "" being the falsy one.                                                 *)
(***************************************************************************)

\* Longest display name drawn as input.
MaxNameLen == 2

\* Longest settings.mcpServers list drawn as input.
MaxServers == 2

None == <<>>
Some(v) == <<v>>
IsSome(o) == Len(o) = 1
Get(o) == o[1]

\* One upper-case letter and one whitespace character are enough to see
\* toLowerCase and the /\s+/g replacement at work.
Alphabet == {"A", " "}

SeqsUpTo(S, n) == UNION {[1..k -> S] : k \in 0..n}

\* Lines 283, 300, 317 read three keys of features; "search" stands for any
\* other key a caller may send.
FeatureKeys == {"chat", "automation", "analytics", "search"}

KnownFeatureKeys == {"chat", "automation", "analytics"}

\* A features object as the caller wrote it: the known keys it holds, each
\* once, in the order written, with the truthiness of the value.
FeatureLists ==
    {f \in SeqsUpTo([key : KnownFeatureKeys, on : BOOLEAN], Cardinality(KnownFeatureKeys)) :
        \A i, j \in 1..Len(f) : f[i].key = f[j].key => i = j}

\* The same, with or without an enabled key that the converter does not know.
FeatureObjects ==
    FeatureLists \cup {Append(f, [key |-> "search", on |-> TRUE]) : f \in FeatureLists}

\* Lines 85-89: MCPServerConfig.
Servers == [url : {"http://mcp"}, name : {"srv"}, enabled : BOOLEAN]

\* Lines 105-108: the settings object.
SettingsObjects ==
    [mcpServers : {None} \cup {Some(l) : l \in SeqsUpTo(Servers, MaxServers)},
     creativity : {None, Some(0)}]

\* Lines 98-104: apiKeys, reduced to one key.
ApiKeyObjects == {[openai |-> "sk"]}

\* Lines 91-116: UIConfig, as an unknown value: something that is not an
\* object at all, or an object with any of the fields missing or falsy.
\* agent_id is not a field of UIConfig; the converter never reads it.
NotAnObject ==
    [isObject |-> FALSE, name |-> None, agent_name |-> None, agent_id |-> None,
     personality |-> "", instructions |-> "", features |-> None,
     apiKeys |-> None, settings |-> None]

\* Inputs for the guards of lines 221 and 235: every field present, absent
\* or falsy on its own.  The guards throw before features, apiKeys and the
\* members of settings are read, so a few values of those are enough here.
GuardInputs ==
    [isObject : {TRUE},
     name : {None} \cup {Some(n) : n \in SeqsUpTo(Alphabet, MaxNameLen)},
     agent_name : {None, Some(<<>>), Some(<<"urn:agent:acme:bot">>)},
     agent_id : {None},
     personality : {"", "friendly"},
     instructions : {"", "help customers"},
     features : {None, Some(<<>>), Some(<<[key |-> "chat", on |-> TRUE]>>)},
     apiKeys : {None} \cup {Some(k) : k \in ApiKeyObjects},
     settings : {None, Some([mcpServers |-> None, creativity |-> None]),
                 Some([mcpServers |-> Some(<<>>), creativity |-> Some(0)])}]

\* Inputs that pass the guards, with everything the body reads varied.
ContentInputs ==
    [isObject : {TRUE},
     name : {Some(n) : n \in SeqsUpTo(Alphabet, MaxNameLen) \ {<<>>}},
     agent_name : {None, Some(<<>>), Some(<<"urn:agent:acme:bot">>)},
     agent_id : {None},
     personality : {"friendly"},
     instructions : {"help customers"},
     features : {None} \cup {Some(f) : f \in FeatureObjects},
     apiKeys : {None} \cup {Some(k) : k \in ApiKeyObjects},
     settings : {Some(g) : g \in SettingsObjects}]

UIConfigs == {NotAnObject} \cup GuardInputs \cup ContentInputs

\* JavaScript truthiness of the destructured fields (line 235).
TruthyName(o) == IsSome(o) /\ Len(Get(o)) > 0

TruthyText(t) == t # ""

\* The truthiness flags that the guards of lines 221 and 235 look at.
Flags(u) ==
    [isObject |-> u.isObject,
     name |-> TruthyName(u.name),
     personality |-> TruthyText(u.personality),
     instructions |-> TruthyText(u.instructions),
     settings |-> IsSome(u.settings)]

\* String.prototype.toLowerCase on the alphabet.
ToLower(c) == IF c = "A" THEN "a" ELSE c

IsSpace(c) == c = " "

LowerCase(s) == [i \in 1..Len(s) |-> ToLower(s[i])]

RECURSIVE DropSpaces(_)
DropSpaces(s) ==
    IF s # <<>> /\ IsSpace(Head(s)) THEN DropSpaces(Tail(s)) ELSE s

\* A replacement of every whitespace character by its own hyphen.
RECURSIVE ReplaceEachSpace(_)
ReplaceEachSpace(s) ==
    IF s = <<>> THEN <<>>
    ELSE <<IF IsSpace(Head(s)) THEN "-" ELSE Head(s)>> \o ReplaceEachSpace(Tail(s))

\* Line 256: replace(/\s+/g, '-'): every maximal run of whitespace becomes
\* one hyphen.
RECURSIVE ReplaceSpaceRuns(_)
ReplaceSpaceRuns(s) ==
    IF s = <<>> THEN <<>>
    ELSE IF IsSpace(Head(s))
         THEN <<"-">> \o ReplaceSpaceRuns(DropSpaces(Tail(s)))
         ELSE <<Head(s)>> \o ReplaceSpaceRuns(Tail(s))

\* A slug that keeps the case of the display name.
SlugKeepCase(n) == <<"urn:agent:agentify:">> \o ReplaceSpaceRuns(n)

\* Line 256: the generated alias.
Slug(n) == <<"urn:agent:agentify:">> \o ReplaceSpaceRuns(LowerCase(n))

\* An alias that is always generated from the display name.
AgentNameIgnoringSupplied(existing, n) == Slug(n)

\* Line 256: existingAgentName || slug.
AgentName(existing, n) ==
    IF IsSome(existing) /\ Len(Get(existing)) > 0 THEN Get(existing) ELSE Slug(n)

\* Isolation limits with half the memory.
DefaultTEEHalfMemory ==
    [isolationLevel |-> "process",
     resourceLimits |-> [memory |-> 256, cpu |-> 1, timeLimit |-> 60],
     networkAccess |-> TRUE,
     fileSystemAccess |-> FALSE]

\* Lines 269-278: trustedExecutionEnvironment.
DefaultTEE ==
    [isolationLevel |-> "process",
     resourceLimits |-> [memory |-> 512, cpu |-> 1, timeLimit |-> 60],
     networkAccess |-> TRUE,
     fileSystemAccess |-> FALSE]

\* Lines 284-297, 301-314, 318-331: the three built-in tools.
ChatTool ==
    [name |-> "chat", description |-> "Chat with the user",
     implementation |-> "return { message: input }",
     parameters |-> <<[name |-> "input", type |-> "string",
                       description |-> "The user input", required |-> TRUE]>>,
     returnType |-> "object"]

AutomateTool ==
    [name |-> "automate", description |-> "Automate a task",
     implementation |-> "return { success: true, taskId: \"task-123\" }",
     parameters |-> <<[name |-> "task", type |-> "string",
                       description |-> "The task to automate", required |-> TRUE]>>,
     returnType |-> "object"]

AnalyzeTool ==
    [name |-> "analyze", description |-> "Analyze data",
     implementation |-> "return { insights: [\"Insight 1\", \"Insight 2\"] }",
     parameters |-> <<[name |-> "data", type |-> "string",
                       description |-> "The data to analyze", required |-> TRUE]>>,
     returnType |-> "object"]

\* agentFeatures.<key>: property lookup, truthy or not; a missing key is
\* undefined, which is falsy.
FeatureOn(f, k) == \E i \in 1..Len(f) : f[i].key = k /\ f[i].on

PushIf(cond, q, x) == IF cond THEN Append(q, x) ELSE q

\* The built-in tool of a features key, if it has one.
ToolOfKey(k) ==
    IF k = "chat" THEN <<ChatTool>>
    ELSE IF k = "automation" THEN <<AutomateTool>>
    ELSE IF k = "analytics" THEN <<AnalyzeTool>>
    ELSE <<>>

\* Tools pushed while iterating over the keys of features, in the order the
\* caller wrote them.
RECURSIVE FeatureToolsInInputOrder(_)
FeatureToolsInInputOrder(features) ==
    IF ~IsSome(features) \/ Get(features) = <<>> THEN <<>>
    ELSE LET f == Get(features) IN
         (IF Head(f).on THEN ToolOfKey(Head(f).key) ELSE <<>>)
            \o FeatureToolsInInputOrder(Some(Tail(f)))

\* Lines 281-333: three tests in a fixed order, each pushing one tool.
FeatureTools(features) ==
    IF ~IsSome(features) THEN <<>>
    ELSE LET f == Get(features)
             t1 == PushIf(FeatureOn(f, "chat"), <<>>, ChatTool)
             t2 == PushIf(FeatureOn(f, "automation"), t1, AutomateTool)
         IN  PushIf(FeatureOn(f, "analytics"), t2, AnalyzeTool)

BoolStr(b) == IF b THEN "true" ELSE "false"

\* JSON.stringify of a server and of the API keys (lines 343, 365), as the
\* sequence of tokens of the text.
JsonServer(srv) ==
    <<"{", "url:", srv.url, "name:", srv.name, "enabled:", BoolStr(srv.enabled), "}">>

JsonApiKeys(k) == <<"{", "openai:", k.openai, "}">>

\* A resource name that leaves the index out.
McpResourceNameNoIndex(index) == <<"mcp_server_">>

\* Line 341: `mcp_server_${index}`.
McpResourceName(index) == <<"mcp_server_", ToString(index)>>

\* Lines 338-347: forEach over the servers with its zero-based index; only
\* enabled servers are pushed.
RECURSIVE McpResources(_, _)
McpResources(servers, done) ==
    IF done = Len(servers) THEN <<>>
    ELSE LET srv == servers[done + 1] IN
         (IF srv.enabled
          THEN <<[name |-> McpResourceName(done), type |-> "json",
                  content |-> JsonServer(srv), isEmbedded |-> TRUE]>>
          ELSE <<>>) \o McpResources(servers, done + 1)

\* A test of the creativity setting by its truthiness.
CreativityTruthy(c) == IsSome(c) /\ Get(c) # 0

\* Line 351: agentSettings.creativity !== undefined.
CreativitySupplied(c) == IsSome(c)

\* Lines 335-368: the resources, in the order the code pushes them.
Resources(u) ==
    LET st == u.settings
        mcp == IF IsSome(st) /\ IsSome(Get(st).mcpServers)
               THEN McpResources(Get(Get(st).mcpServers), 0) ELSE <<>>
        cr == IF IsSome(st) /\ CreativitySupplied(Get(st).creativity)
              THEN <<[name |-> <<"creativity_parameter">>, type |-> "text",
                      content |-> <<ToString(Get(Get(st).creativity))>>,
                      isEmbedded |-> TRUE]>>
              ELSE <<>>
        keys == IF IsSome(u.apiKeys)
                THEN <<[name |-> <<"api_keys">>, type |-> "json",
                        content |-> JsonApiKeys(Get(u.apiKeys)),
                        isEmbedded |-> TRUE]>>
                ELSE <<>>
    IN  mcp \o cr \o keys

\* Lines 252-279 and 281-368: the descriptor built for a valid input; id is
\* the value uuidv4() returned (line 241).
PluginConfig(u, id) ==
    LET n == IF IsSome(u.name) THEN Get(u.name) ELSE <<>> IN
    [agent_id |-> id,
     agent_name |-> AgentName(u.agent_name, n),
     agentType |-> "llm",
     description |-> u.instructions,
     version |-> "1.0.0",
     facts_url |-> <<"https://agentify.example.com/agents/", id>>,
     ttl |-> 3600,
     signature |-> "placeholder-signature",
     tools |-> FeatureTools(u.features),
     resources |-> Resources(u),
     prompts |-> <<>>,
     pythonDependencies |-> <<>>,
     useChromemGo |-> TRUE,
     subAgentCapabilities |-> FALSE,
     trustedExecutionEnvironment |-> DefaultTEE]

NoResult == [status |-> "none", config |-> None]

\* Lines 220-378 as a function of the input and of the next uuid: a thrown
\* Error or the descriptor.
Convert(u, id) ==
    IF ValidUIConfig(Flags(u))
    THEN [status |-> "ok", config |-> Some(PluginConfig(u, id))]
    ELSE [status |-> "threw", config |-> None]

\* The descriptor handed back as an input: the fields the caller sent, with
\* the identity the descriptor carries.
AsRawInput(u, config) ==
    [u EXCEPT !.agent_id = Some(config.agent_id),
              !.agent_name = Some(config.agent_name)]

\* Lines 170-177: the output root chosen from the host environment.
InitialOutputDir(e) ==
    IF e.serverless THEN TransientDir ELSE PersistentDir

\* Line 198: the condition under which the factory treats the toolchain as missing.
ToolchainMissing(tc) == ~tc["go"] \/ ~tc["python"]

\* A factory that installs in every execution mode.
MayInstallAlways(e) == TRUE

\* Line 206: install is attempted only outside production.
MayInstall(e) == ~e.production

\* A factory that inspects again after the install and loops.
AfterInstallLoop == "check"

\* Lines 209-215: after the try/catch around installToolchain the factory
\* falls through to the return statement.
AfterInstall == "return"

\* An install failure that is not caught.
OnInstallErrorUncaught == [pc |-> "rejected", state |-> "Faulted"]

\* Lines 210-213: a failed install is caught and logged; the factory goes on.
OnInstallError == [pc |-> AfterInstall, state |-> "ToolchainMissing"]

\* A service that calls the compiler again when the build was rejected.
OnCompilerRejectRetry == "Building"

\* Line 218: compileAgent hands the compiler's promise back unchanged, so a
\* rejected build is the request's failure.
OnCompilerReject == "Failed"

\* The variables of the single call and of the concurrent requests while
\* they are not in use.
NormIdle ==
    /\ rawInput = NotAnObject
    /\ result = NoResult
    /\ second = NoResult
    /\ uuidNext = 1

ConcIdle ==
    /\ cpc = <<>>
    /\ ctoolchain = <<>>
    /\ installing = <<>>
    /\ descId = <<>>
    /\ workDir = <<>>
    /\ suffixNext = 1

\* The variables of the later sections while they are not in use.
RouteIdle ==
    /\ rreq = <<>>
    /\ rpc = "off"
    /\ ruser = <<>>
    /\ rresp = <<>>
    /\ rops = <<>>
    /\ rtable = <<>>
    /\ rcount = 0

SseIdle ==
    /\ mounted = <<>>
    /\ autoConn = <<>>
    /\ msgRef = <<>>
    /\ statusRef = <<>>
    /\ hasConnected = <<>>
    /\ mgr = <<>>
    /\ accessToken = "none"
    /\ lastCalls = <<>>
    /\ lastStep = <<>>
    /\ cleanupCloses = FALSE
    /\ connectReplaces = FALSE

AuthIdle ==
    /\ authPc = "off"
    /\ authLoading = TRUE
    /\ authUser = FALSE
    /\ subscribed = FALSE
    /\ storedUser = FALSE
    /\ validation = "none"
    /\ logoutCalls = 0
    /\ notifications = 0

LaterIdle == RouteIdle /\ SseIdle /\ AuthIdle

Init ==
    /\ env \in [production : BOOLEAN, serverless : BOOLEAN]
    /\ fs \in [Dirs -> DirStates]
    /\ host \in [Tools -> BOOLEAN]
    /\ uiConfig \in RawInputs
    /\ pc = "mkdir"
    /\ defaultOutputDir = "none"
    /\ toolchain = "none"
    /\ mockMode = FALSE
    /\ state = "Created"
    /\ error = "none"
    /\ descriptor = "none"
    /\ compilationLogs = <<>>
    /\ artifact = "none"
    /\ retrieved = <<>>
    /\ console = <<>>
    /\ installOutcome = "none"
    /\ buildOutcome = "none"
    /\ mkdirCalls = 0
    /\ detectCalls = 0
    /\ installCalls = 0
    /\ missingEntries = 0
    /\ renderCalls = 0
    /\ buildCalls = 0
    /\ compiles = 0
    /\ compilerOutputDir = "none"
    /\ reportedDir = None
    /\ LaterIdle
    /\ NormIdle
    /\ ConcIdle

Append2(q, a, b) == Append(Append(q, a), b)

\* Lines 179-191: existsSync / mkdirSync on the chosen root, with the fallback
\* to the transient root when the first attempt throws.  The second attempt
\* sits inside the catch block and is not guarded.  The result names the
\* directory, the file system afterwards, the mkdirSync calls made, whether
\* the warning was printed and whether the factory survived.
OutputDirStep(e, f) ==
    LET first == InitialOutputDir(e) IN
    IF f[first] = "exists"
    THEN [dir |-> first, fs |-> f, calls |-> 0, warned |-> FALSE, ok |-> TRUE]
    ELSE IF f[first] = "creatable"
    THEN [dir |-> first, fs |-> [f EXCEPT ![first] = "exists"], calls |-> 1,
          warned |-> FALSE, ok |-> TRUE]
    ELSE IF f[TransientDir] = "exists"
    THEN [dir |-> TransientDir, fs |-> f, calls |-> 1, warned |-> TRUE, ok |-> TRUE]
    ELSE IF f[TransientDir] = "creatable"
    THEN [dir |-> TransientDir, fs |-> [f EXCEPT ![TransientDir] = "exists"],
          calls |-> 2, warned |-> TRUE, ok |-> TRUE]
    ELSE [dir |-> TransientDir, fs |-> f, calls |-> 2, warned |-> TRUE, ok |-> FALSE]

\* A compiler that is always given the first choice of lines 170-177.
ConstructedWithFirstChoice(dir) == InitialOutputDir(env)

\* Line 194: the directory handed to the constructor is the value
\* defaultOutputDir holds after the try/catch of lines 180-191.
ConstructedWith(dir) == dir

\* Lines 160-194: the factory up to the construction of the compiler.
CreateOutputDir ==
    /\ pc = "mkdir"
    /\ LET r == OutputDirStep(env, fs) IN
        /\ defaultOutputDir' = r.dir
        /\ fs' = r.fs
        /\ mkdirCalls' = mkdirCalls + r.calls
        /\ console' = IF r.warned THEN Append(console, "no-output-dir") ELSE console
        /\ pc' = IF r.ok THEN "check" ELSE "rejected"
        /\ state' = IF r.ok THEN "Inspecting" ELSE "Faulted"
        /\ compilerOutputDir' = IF r.ok THEN ConstructedWith(r.dir) ELSE compilerOutputDir
    /\ UNCHANGED reportedDir
    /\ UNCHANGED <<env, host, uiConfig, toolchain, mockMode, error, descriptor,
                   compilationLogs, artifact, retrieved, installOutcome,
                   buildOutcome, detectCalls, installCalls, missingEntries,
                   renderCalls, buildCalls, compiles>>
    /\ UNCHANGED otherVars

\* AgentCompiler.checkToolchain, from section 4.2 (detect): each required tool
\* is reported available exactly when it is installed on the host.
Detect(h) == h

\* Lines 196-206: the toolchain check and the branch on its result.
CheckToolchain ==
    /\ pc = "check"
    /\ toolchain' = Detect(host)
    /\ detectCalls' = detectCalls + 1
    /\ IF ToolchainMissing(toolchain')
       THEN /\ console' = Append(console, "missing-toolchain")
            /\ state' = "ToolchainMissing"
            /\ missingEntries' = missingEntries + 1
            /\ mockMode' = TRUE
            /\ pc' = IF MayInstall(env) THEN "install" ELSE "return"
       ELSE /\ state' = "Ready"
            /\ pc' = "return"
            /\ UNCHANGED <<console, missingEntries, mockMode>>
    /\ UNCHANGED <<env, fs, host, uiConfig, defaultOutputDir, error, descriptor,
                   compilationLogs, artifact, retrieved, installOutcome,
                   buildOutcome, mkdirCalls, installCalls, renderCalls,
                   buildCalls, compiles>>
    /\ UNCHANGED otherVars
    /\ UNCHANGED dirVars

\* AgentCompiler.installToolchain, from section 4.2 (install): best effort per
\* missing tool; no installed tool is lost; the call resolves exactly when
\* every tool is available afterwards and fails with InstallError otherwise.
InstallResults(h) ==
    {g \in [Tools -> BOOLEAN] : \A t \in Tools : h[t] => g[t]}

InstallResolved(g) == \A t \in Tools : g[t]

\* Lines 207-213: the install attempt and its try/catch.
InstallToolchain ==
    /\ pc = "install"
    /\ installCalls' = installCalls + 1
    /\ \E g \in InstallResults(host) :
        /\ host' = g
        /\ IF InstallResolved(g)
           THEN /\ installOutcome' = "ok"
                /\ console' = Append(console, "installing")
                /\ mockMode' = FALSE
                /\ state' = "Ready"
                /\ pc' = AfterInstall
           ELSE /\ installOutcome' = "failed"
                /\ console' = Append2(Append(console, "installing"),
                                      "install-failed", "mock-fallback")
                /\ mockMode' = mockMode
                /\ state' = OnInstallError.state
                /\ pc' = OnInstallError.pc
    /\ UNCHANGED <<env, fs, uiConfig, defaultOutputDir, toolchain, error,
                   descriptor, compilationLogs, artifact, retrieved,
                   buildOutcome, mkdirCalls, detectCalls, missingEntries,
                   renderCalls, buildCalls, compiles>>
    /\ UNCHANGED otherVars
    /\ UNCHANGED dirVars

\* Lines 217-385: the factory resolves with the service object.
ReturnService ==
    /\ pc = "return"
    /\ pc' = "service"
    /\ UNCHANGED <<env, fs, host, uiConfig, defaultOutputDir, toolchain,
                   mockMode, state, error, descriptor, compilationLogs,
                   artifact, retrieved, console, installOutcome, buildOutcome,
                   mkdirCalls, detectCalls, installCalls, missingEntries,
                   renderCalls, buildCalls, compiles>>
    /\ UNCHANGED otherVars
    /\ UNCHANGED dirVars

\* Lines 220-378: the service's convertUIConfigToPluginConfig, reduced to
\* whether it throws or returns a descriptor.
convertUIConfigToPluginConfig ==
    /\ pc = "service"
    /\ descriptor = "none"
    /\ state \in {"Ready", "ToolchainMissing"}
    /\ IF ValidUIConfig(uiConfig)
       THEN /\ descriptor' = "valid"
            /\ console' = Append2(console, "converting", "final-config")
            /\ UNCHANGED <<state, error>>
       ELSE /\ state' = "Failed"
            /\ error' = "ValidationError"
            /\ UNCHANGED <<descriptor, console>>
    /\ UNCHANGED <<env, fs, host, uiConfig, pc, defaultOutputDir, toolchain,
                   mockMode, compilationLogs, artifact, retrieved,
                   installOutcome, buildOutcome, mkdirCalls, detectCalls,
                   installCalls, missingEntries, renderCalls, buildCalls,
                   compiles>>
    /\ UNCHANGED otherVars
    /\ UNCHANGED dirVars

\* AgentCompiler.compileAgent, from sections 3 and 4.5 and the comment on
\* getCompilationLogs (lines 149-153, "the logs from the last compilation"):
\* a compilation starts a fresh record; out of ToolchainMissing it ends at
\* once in Degraded with a placeholder artifact and a mock marker in the log,
\* out of Ready it goes on to Rendering.
StartCompilation(mock) ==
    IF mock
    THEN [state |-> "Degraded", logs |-> <<"start", "mock-compilation">>,
          artifact |-> "placeholder"]
    ELSE [state |-> "Rendering", logs |-> <<"start">>, artifact |-> "none"]

\* Line 218: the service's compileAgent delegates to the compiler.
compileAgent ==
    /\ pc = "service"
    /\ descriptor = "valid"
    /\ compiles < MaxCompiles
    /\ state \in {"Ready", "ToolchainMissing"} \cup Terminal
    /\ compiles' = compiles + 1
    /\ LET r == StartCompilation(mockMode) IN
        /\ state' = r.state
        /\ compilationLogs' = r.logs
        /\ artifact' = r.artifact
    /\ error' = "none"
    /\ buildOutcome' = "none"
    /\ renderCalls' = 0
    /\ buildCalls' = 0
    /\ UNCHANGED <<env, fs, host, uiConfig, pc, defaultOutputDir, toolchain,
                   mockMode, descriptor, retrieved, console, installOutcome,
                   mkdirCalls, detectCalls, installCalls, missingEntries>>
    /\ UNCHANGED otherVars
    /\ UNCHANGED dirVars

\* Template Renderer, from section 4.3: rendering either produces the source
\* tree or fails with TemplateError, which is terminal.
Render ==
    /\ state = "Rendering"
    /\ renderCalls' = renderCalls + 1
    /\ \E ok \in BOOLEAN :
        IF ok
        THEN /\ state' = "Building"
             /\ compilationLogs' = Append(compilationLogs, "rendered")
             /\ error' = error
        ELSE /\ state' = "Failed"
             /\ compilationLogs' = Append(compilationLogs, "template-error")
             /\ error' = "TemplateError"
    /\ UNCHANGED <<env, fs, host, uiConfig, pc, defaultOutputDir, toolchain,
                   mockMode, descriptor, artifact, retrieved, console,
                   installOutcome, buildOutcome, mkdirCalls, detectCalls,
                   installCalls, missingEntries, buildCalls, compiles>>
    /\ UNCHANGED otherVars
    /\ UNCHANGED dirVars

\* Build Invoker, from section 4.4: one run of the external compiler, whose
\* output goes to the log; success yields the module's path, a non-zero exit
\* or timeout rejects with BuildError.
Build ==
    /\ state = "Building"
    /\ buildCalls' = buildCalls + 1
    /\ \E ok \in BOOLEAN :
        IF ok
        THEN /\ state' = "Succeeded"
             /\ artifact' = "module"
             /\ buildOutcome' = "ok"
             /\ compilationLogs' = Append(compilationLogs, "built")
             /\ error' = error
        ELSE /\ state' = OnCompilerReject
             /\ artifact' = artifact
             /\ buildOutcome' = "error"
             /\ compilationLogs' = Append(compilationLogs, "build-error")
             /\ error' = "BuildError"
    /\ UNCHANGED <<env, fs, host, uiConfig, pc, defaultOutputDir, toolchain,
                   mockMode, descriptor, retrieved, console, installOutcome,
                   mkdirCalls, detectCalls, installCalls, missingEntries,
                   renderCalls, compiles>>
    /\ UNCHANGED otherVars
    /\ UNCHANGED dirVars

\* A getCompilationLogs that empties the log it hands out.
LogsAfterReadCleared(l) == <<>>

\* Line 384: getCompilationLogs only reads the compiler's log.
LogsAfterRead(l) == l

\* Lines 149-153 and 384: the caller fetches the log of the last compilation.
getCompilationLogs ==
    /\ pc = "service"
    /\ retrieved' = compilationLogs
    /\ compilationLogs' = LogsAfterRead(compilationLogs)
    /\ UNCHANGED <<env, fs, host, uiConfig, pc, defaultOutputDir, toolchain,
                   mockMode, state, error, descriptor, artifact, console,
                   installOutcome, buildOutcome, mkdirCalls, detectCalls,
                   installCalls, missingEntries, renderCalls, buildCalls,
                   compiles>>
    /\ UNCHANGED otherVars
    /\ UNCHANGED dirVars

\* Line 382: getDefaultOutputDir returns the factory's local.
getDefaultOutputDir ==
    /\ pc = "service"
    /\ reportedDir' = Some(defaultOutputDir)
    /\ UNCHANGED <<orchVars, compilerOutputDir, otherVars>>

Next ==
    \/ getDefaultOutputDir
    \/ CreateOutputDir
    \/ CheckToolchain
    \/ InstallToolchain
    \/ ReturnService
    \/ convertUIConfigToPluginConfig
    \/ compileAgent
    \/ Render
    \/ Build
    \/ getCompilationLogs

Spec == Init /\ [][Next]_vars

TypeOK ==
    /\ pc \in {"mkdir", "check", "install", "return", "service", "rejected"}
    /\ state \in {"Created", "Inspecting", "ToolchainMissing", "Ready",
                  "Rendering", "Building", "Faulted"} \cup Terminal
    /\ defaultOutputDir \in Dirs \cup {"none"}
    /\ descriptor \in {"none", "valid"}
    /\ artifact \in {"none", "module", "placeholder"}
    /\ compiles \in 0..MaxCompiles

Inspected == detectCalls > 0

FoundMissing == Inspected /\ \E t \in Tools : ~toolchain[t]

HasMockMarker == \E i \in 1..Len(compilationLogs) : compilationLogs[i] = "mock-compilation"

\* C1: when inspection finds a required tool missing in production mode, the
\* request never is Ready, Rendering, Building or Succeeded, and once it is
\* terminal with a valid descriptor it is Degraded with a mock marker in the log.
C1_ProductionMissingIsDegraded ==
    (env.production /\ FoundMissing) =>
        /\ state \notin {"Ready", "Rendering", "Building", "Succeeded"}
        /\ (state \in Terminal /\ descriptor = "valid") =>
               (state = "Degraded" /\ HasMockMarker)

\* C2: in production mode the toolchain install is never invoked, whatever
\* the toolchain check reported.
C2_NoInstallInProduction ==
    env.production =>
        (installCalls = 0 /\ installOutcome = "none" /\ pc # "install")

\* C2 witness: a production factory that found go or python missing and has
\* returned its service without installing.
C2_Witness ==
    /\ env.production
    /\ Inspected /\ ToolchainMissing(toolchain)
    /\ pc = "service"
    /\ installCalls = 0

\* C3: after a successful install outside production the toolchain check has
\* been run again exactly once (two checks in all) and the request is Ready.
C3_RedetectOnceThenReady ==
    (installOutcome = "ok" /\ pc \in {"return", "service"}) =>
        (detectCalls = 2 /\ ~mockMode)

\* C4: the missing-toolchain step is taken at most once per request: at most
\* one install, at most one entry into ToolchainMissing, at most one check
\* after the first, and a request whose gating tools are still missing after
\* the install ends Degraded when it compiles, never Ready again.
C4_InstallStepAtMostOnce ==
    /\ installCalls <= 1
    /\ missingEntries <= 1
    /\ detectCalls <= 2
    /\ (installCalls = 1 /\ ToolchainMissing(host)) =>
           /\ state \notin {"Ready", "Rendering", "Building", "Succeeded"}
           /\ (state \in Terminal /\ descriptor = "valid") => state = "Degraded"

\* C4 witness: one install was tried, go or python is still missing, and the
\* request has ended Degraded.
C4_Witness ==
    /\ installCalls = 1
    /\ ToolchainMissing(host)
    /\ missingEntries = 1
    /\ state = "Degraded"

\* C5: after inspection the request is Ready only if every required tool
\* (go, python and gcc) was found, and a missing tool enters ToolchainMissing.
C5_ReadyOnlyWithEveryTool ==
    Inspected =>
        /\ (state = "Ready" /\ installCalls = 0) => \A t \in Tools : toolchain[t]
        /\ FoundMissing => missingEntries >= 1

\* C6: a failed install is caught: the factory still returns its service, the
\* request is not faulted, and it compiles to Degraded with a placeholder and
\* a mock marker; the only Failed it can reach is the validation failure of
\* its own input.
C6_InstallFailureDegrades ==
    installOutcome = "failed" =>
        /\ pc \in {"return", "service"}
        /\ \/ state \in {"ToolchainMissing", "Degraded"}
           \/ state = "Failed" /\ error = "ValidationError"
        /\ state = "Degraded" => (artifact = "placeholder" /\ HasMockMarker)

\* C6 witness: the install failed, the service was returned and the request
\* was compiled in mock mode.
C6_Witness ==
    /\ installOutcome = "failed"
    /\ pc = "service"
    /\ state = "Degraded"
    /\ artifact = "placeholder"

\* C7: no stage failure escapes as an unhandled fault: the factory is never
\* rejected and the request is never left outside the orchestrator's states.
C7_NoUnhandledFault ==
    /\ pc # "rejected"
    /\ state # "Faulted"

RecordUnchanged ==
    /\ state' = state
    /\ compilationLogs' = compilationLogs
    /\ artifact' = artifact

C9_BuildNotRetried ==
    /\ buildCalls <= 1
    /\ buildOutcome = "error" => (state = "Failed" /\ error = "BuildError")

\* C9 witness: the one build of a request failed and the request is Failed.
C9_Witness ==
    /\ buildOutcome = "error"
    /\ buildCalls = 1
    /\ state = "Failed"

\* C10: a request that failed validation has seen no directory creation, no
\* toolchain check (inspection was not entered for it), no install, no
\* rendering and no build.
C10_ValidationBeforeSideEffects ==
    (state = "Failed" /\ error = "ValidationError") =>
        /\ mkdirCalls = 0
        /\ detectCalls = 0
        /\ installCalls = 0
        /\ renderCalls = 0
        /\ buildCalls = 0

(***************************************************************************)
(* convertUIConfigToPluginConfig called on its own, on any input, and      *)
(* then once more on the descriptor it returned.                           *)
(***************************************************************************)

InitNorm ==
    /\ env = [serverless |-> FALSE, production |-> FALSE]
    /\ fs = [d \in Dirs |-> "exists"]
    /\ host = [t \in Tools |-> TRUE]
    /\ uiConfig = [isObject |-> FALSE, name |-> FALSE, personality |-> FALSE,
                   instructions |-> FALSE, settings |-> FALSE]
    /\ pc = "service"
    /\ defaultOutputDir = PersistentDir
    /\ toolchain = [t \in Tools |-> TRUE]
    /\ mockMode = FALSE
    /\ state = "Idle"
    /\ error = "none"
    /\ descriptor = "none"
    /\ compilationLogs = <<>>
    /\ artifact = FALSE
    /\ retrieved = <<>>
    /\ console = <<>>
    /\ installOutcome = "none"
    /\ buildOutcome = "none"
    /\ mkdirCalls = 0
    /\ detectCalls = 1
    /\ installCalls = 0
    /\ missingEntries = 0
    /\ renderCalls = 0
    /\ buildCalls = 0
    /\ compiles = 0
    /\ rawInput \in UIConfigs
    /\ result = NoResult
    /\ second = NoResult
    /\ uuidNext = 1
    /\ ConcIdle
    /\ compilerOutputDir = PersistentDir
    /\ reportedDir = None
    /\ LaterIdle

\* Line 220: one call; line 241 draws the uuid.
NormalizeCall ==
    /\ result.status = "none"
    /\ result' = Convert(rawInput, uuidNext)
    /\ uuidNext' = uuidNext + 1
    /\ UNCHANGED <<rawInput, second, orchVars, dirVars, concVars, laterVars>>

\* Line 220 again, on the descriptor of the first call.
RenormalizeCall ==
    /\ result.status = "ok"
    /\ second.status = "none"
    /\ second' = Convert(AsRawInput(rawInput, Get(result.config)), uuidNext)
    /\ uuidNext' = uuidNext + 1
    /\ UNCHANGED <<rawInput, result, orchVars, dirVars, concVars, laterVars>>

NextNorm == NormalizeCall \/ RenormalizeCall

SpecNorm == InitNorm /\ [][NextNorm]_vars

Called == result.status # "none"

Returned == result.status = "ok"

Config == Get(result.config)

\* C11: an input without the display name, without the personality text or
\* without the settings object makes the call throw, and no descriptor, whole
\* or partial, comes back.
C11_MissingRequiredFails ==
    (/\ Called
     /\ \/ ~IsSome(rawInput.name)
        \/ rawInput.personality = ""
        \/ ~IsSome(rawInput.settings))
    => (result.status = "threw" /\ result.config = None)

\* An input that lacks nothing but the settings object was refused.
C11_Witness ==
    /\ result.status = "threw"
    /\ result.config = None
    /\ rawInput.isObject
    /\ TruthyName(rawInput.name)
    /\ rawInput.personality # ""
    /\ rawInput.instructions # ""
    /\ IsSome(rawInput.features)
    /\ ~IsSome(rawInput.settings)

\* C12: an input without feature flags is refused.
C12_MissingFeaturesRejected ==
    (Called /\ ~IsSome(rawInput.features)) => result.status = "threw"

\* The features keys whose value is truthy, read off the input.
EnabledKeys(u) ==
    IF IsSome(u.features)
    THEN {Get(u.features)[i].key : i \in {j \in 1..Len(Get(u.features)) : Get(u.features)[j].on}}
    ELSE {}

FeatureOfTool(t) ==
    IF t.name = "chat" THEN "chat"
    ELSE IF t.name = "automate" THEN "automation"
    ELSE "analytics"

ToolEnabled(t) == FeatureOfTool(t) \in EnabledKeys(rawInput)

\* C13: the tools of the descriptor are the built-in tools chat, automate,
\* analyze, in that order, restricted to the features switched on in the
\* input, wherever the input wrote them; a feature that is off, absent or
\* unknown adds nothing.
C13_ToolsInFixedOrder ==
    Returned =>
        Config.tools = SelectSeq(<<ChatTool, AutomateTool, AnalyzeTool>>, ToolEnabled)

\* The input wrote analytics before chat, both on, next to an unknown key,
\* and the descriptor holds chat before analyze.
C13_Witness ==
    /\ Returned
    /\ IsSome(rawInput.features)
    /\ Len(Get(rawInput.features)) = 3
    /\ Get(rawInput.features)[1] = [key |-> "analytics", on |-> TRUE]
    /\ Get(rawInput.features)[2] = [key |-> "chat", on |-> TRUE]
    /\ Get(rawInput.features)[3].key = "search"
    /\ Len(Config.tools) = 2
    /\ Config.tools[1].name = "chat"
    /\ Config.tools[2].name = "analyze"

\* The display name with every upper-case letter lowered and every whitespace
\* character that follows another one left out, the remaining ones written
\* as hyphens.
Hyphenated(n) ==
    LET keep == {i \in 1..Len(n) : ~(n[i] = " " /\ i > 1 /\ n[i - 1] = " ")}
        nth(k) == CHOOSE i \in keep : Cardinality({j \in keep : j <= i}) = k
        char(i) == IF n[i] = " " THEN "-" ELSE IF n[i] = "A" THEN "a" ELSE n[i]
    IN  [k \in 1..Cardinality(keep) |-> char(nth(k))]

AgentNameSupplied(u) == IsSome(u.agent_name) /\ Get(u.agent_name) # <<>>

\* C14: the descriptor's agent_name is the agent_name of the input when the
\* input carries a non-empty one, and otherwise "urn:agent:agentify:" followed
\* by the display name in lower case with whitespace turned into hyphens;
\* agent_id is a drawn uuid and agent_name is not empty.
C14_AgentNameKeptOrSlug ==
    Returned =>
        /\ Config.agent_name =
               IF AgentNameSupplied(rawInput)
               THEN Get(rawInput.agent_name)
               ELSE <<"urn:agent:agentify:">> \o Hyphenated(Get(rawInput.name))
        /\ Config.agent_name # <<>>
        /\ Config.agent_id \in 1..(uuidNext - 1)

\* The display name "A " without an agent_name became urn:agent:agentify:a-.
C14_Witness ==
    /\ Returned
    /\ rawInput.agent_name = None
    /\ rawInput.name = Some(<<"A", " ">>)
    /\ Config.agent_name = <<"urn:agent:agentify:", "a", "-">>

DistinctNames(q) == \A i, j \in 1..Len(q) : q[i].name = q[j].name => i = j

\* C15: in every descriptor the tool names differ from one another and the
\* resource names differ from one another.
C15_NamesUnique ==
    Returned => (DistinctNames(Config.tools) /\ DistinctNames(Config.resources))

\* Three tools and four resources, two of them for MCP servers.
C15_Witness ==
    /\ Returned
    /\ Len(Config.tools) = 3
    /\ Len(Config.resources) = 4
    /\ Config.resources[1].name = <<"mcp_server_", "0">>
    /\ Config.resources[2].name = <<"mcp_server_", "1">>

\* C16: converting the descriptor handed back as an input gives the same
\* descriptor again, agent_id and agent_name included.
C16_Idempotent ==
    second.status # "none" => second = result

ServerList(u) ==
    IF IsSome(Get(u.settings).mcpServers) THEN Get(Get(u.settings).mcpServers) ELSE <<>>

EnabledPositions(u) == {i \in 1..Len(ServerList(u)) : ServerList(u)[i].enabled}

\* Zero-based position in the input of the k-th enabled server.
EnabledIndex(u, k) ==
    (CHOOSE i \in EnabledPositions(u) :
        Cardinality({j \in EnabledPositions(u) : j <= i}) = k) - 1

\* C17: the resources are one json resource per enabled MCP server, in the
\* order of the input (none for a disabled server), then one text resource
\* for the creativity setting when the input has one, then one json resource
\* for the API keys when the input has them; all of them embedded.
C17_ResourcesPerSuppliedItem ==
    Returned =>
        LET k == Cardinality(EnabledPositions(rawInput))
            c == IF IsSome(Get(rawInput.settings).creativity) THEN 1 ELSE 0
            a == IF IsSome(rawInput.apiKeys) THEN 1 ELSE 0
            res == Config.resources
        IN  /\ Len(res) = k + c + a
            /\ \A i \in 1..Len(res) : res[i].isEmbedded
            /\ \A i \in 1..k :
                  /\ res[i].name = <<"mcp_server_", ToString(EnabledIndex(rawInput, i))>>
                  /\ res[i].type = "json"
                  /\ res[i].content =
                        JsonServer(ServerList(rawInput)[EnabledIndex(rawInput, i) + 1])
            /\ c = 1 =>
                  /\ res[k + 1].name = <<"creativity_parameter">>
                  /\ res[k + 1].type = "text"
                  /\ res[k + 1].content =
                        <<ToString(Get(Get(rawInput.settings).creativity))>>
            /\ a = 1 =>
                  /\ res[k + c + 1].name = <<"api_keys">>
                  /\ res[k + c + 1].type = "json"

\* A disabled server before an enabled one, creativity 0 and API keys: three
\* resources, the first one for the server at index 1.
C17_Witness ==
    /\ Returned
    /\ Len(ServerList(rawInput)) = 2
    /\ ~ServerList(rawInput)[1].enabled
    /\ ServerList(rawInput)[2].enabled
    /\ Get(rawInput.settings).creativity = Some(0)
    /\ IsSome(rawInput.apiKeys)
    /\ Len(Config.resources) = 3
    /\ Config.resources[1].name = <<"mcp_server_", "1">>
    /\ Config.resources[2].type = "text"

\* C18: every descriptor carries the isolation limits, and since the input
\* has no field for them they are the defaults: process isolation, 512 MB,
\* 1 core, 60 s, network allowed, file system denied.
C18_DefaultIsolation ==
    Returned =>
        Config.trustedExecutionEnvironment =
            [isolationLevel |-> "process",
             resourceLimits |-> [memory |-> 512, cpu |-> 1, timeLimit |-> 60],
             networkAccess |-> TRUE,
             fileSystemAccess |-> FALSE]

\* A descriptor without tools and without resources still has the limits.
C18_Witness ==
    /\ Returned
    /\ Config.tools = <<>>
    /\ Config.resources = <<>>
    /\ Config.trustedExecutionEnvironment.isolationLevel = "process"
    /\ Config.trustedExecutionEnvironment.resourceLimits.memory = 512

(***************************************************************************)
(* Several requests in one process at the same time: each one creates its  *)
(* own service (lines 160-216), converts an input or takes a descriptor    *)
(* that is already there, and compiles it (line 218).                      *)
(***************************************************************************)

\* Number of requests in flight.
MaxProcs == 2

Procs == 1..MaxProcs

InitConc ==
    /\ env \in [production : BOOLEAN, serverless : BOOLEAN]
    /\ fs = [d \in Dirs |-> "exists"]
    /\ host \in [Tools -> BOOLEAN]
    /\ uiConfig = [isObject |-> TRUE, name |-> TRUE, personality |-> TRUE,
                   instructions |-> TRUE, settings |-> TRUE]
    /\ pc = "concurrent"
    /\ defaultOutputDir = InitialOutputDir(env)
    /\ toolchain = "none"
    /\ mockMode = FALSE
    /\ state = "Created"
    /\ error = "none"
    /\ descriptor = "none"
    /\ compilationLogs = <<>>
    /\ artifact = FALSE
    /\ retrieved = <<>>
    /\ console = <<>>
    /\ installOutcome = "none"
    /\ buildOutcome = "none"
    /\ mkdirCalls = 0
    /\ detectCalls = 0
    /\ installCalls = 0
    /\ missingEntries = 0
    /\ renderCalls = 0
    /\ buildCalls = 0
    /\ compiles = 0
    /\ NormIdle
    /\ compilerOutputDir = InitialOutputDir(env)
    /\ reportedDir = None
    /\ LaterIdle
    /\ cpc = [p \in Procs |-> "check"]
    /\ ctoolchain = [p \in Procs |-> None]
    /\ installing = [p \in Procs |-> {}]
    /\ descId = [p \in Procs |-> None]
    /\ workDir = [p \in Procs |-> None]
    /\ suffixNext = 1

concFixed == <<fs, uiConfig, pc, defaultOutputDir, toolchain, mockMode, state,
               error, descriptor, compilationLogs, artifact, retrieved, console,
               installOutcome, buildOutcome, mkdirCalls, detectCalls,
               installCalls, missingEntries, renderCalls, buildCalls, compiles,
               rawInput, result, second, env, dirVars, laterVars>>

\* Lines 197-206 in request p.
ConcCheckToolchain(p) ==
    /\ cpc[p] = "check"
    /\ ctoolchain' = [ctoolchain EXCEPT ![p] = Some(Detect(host))]
    /\ cpc' = [cpc EXCEPT ![p] =
                 IF ToolchainMissing(Detect(host)) /\ MayInstall(env)
                 THEN "install" ELSE "return"]
    /\ UNCHANGED <<host, installing, descId, workDir, suffixNext, uuidNext, concFixed>>

\* Line 209 in request p: installToolchain() is called on the compiler of
\* this request (line 194) and starts on the tools its check found missing.
ConcInstallBegin(p) ==
    /\ cpc[p] = "install"
    /\ installing' = [installing EXCEPT ![p] = {t \in Tools : ~Get(ctoolchain[p])[t]}]
    /\ cpc' = [cpc EXCEPT ![p] = "installing"]
    /\ UNCHANGED <<host, ctoolchain, descId, workDir, suffixNext, uuidNext, concFixed>>

\* Lines 209-213 in request p: the awaited call settles, resolved or
\* rejected; either way the factory goes on to return the service.
ConcInstallEnd(p) ==
    /\ cpc[p] = "installing"
    /\ host' \in InstallResults(host)
    /\ installing' = [installing EXCEPT ![p] = {}]
    /\ cpc' = [cpc EXCEPT ![p] = "return"]
    /\ UNCHANGED <<ctoolchain, descId, workDir, suffixNext, uuidNext, concFixed>>

\* Lines 217-385 in request p.
ConcReturnService(p) ==
    /\ cpc[p] = "return"
    /\ cpc' = [cpc EXCEPT ![p] = "service"]
    /\ UNCHANGED <<host, ctoolchain, installing, descId, workDir, suffixNext,
                   uuidNext, concFixed>>

\* Lines 220-378 in request p: a conversion, with its own uuid (line 241).
ConcConvert(p) ==
    /\ cpc[p] = "service"
    /\ descId' = [descId EXCEPT ![p] = Some(uuidNext)]
    /\ uuidNext' = uuidNext + 1
    /\ cpc' = [cpc EXCEPT ![p] = "ready"]
    /\ UNCHANGED <<host, ctoolchain, installing, workDir, suffixNext, concFixed>>

\* Line 218 takes any AgentPluginConfig: request p submits the descriptor
\* that request q converted.
ConcTakeDescriptor(p, q) ==
    /\ cpc[p] = "service"
    /\ q # p
    /\ IsSome(descId[q])
    /\ descId' = [descId EXCEPT ![p] = descId[q]]
    /\ cpc' = [cpc EXCEPT ![p] = "ready"]
    /\ UNCHANGED <<host, ctoolchain, installing, workDir, suffixNext, uuidNext,
                   concFixed>>

\* A working directory named after the descriptor alone.
WorkingDirByAgentId(root, id, suffix) == <<root, id>>

\* AgentCompiler.compileAgent, from section 5: the working directory lies
\* under the output root and is keyed by the agent_id plus a request-scoped
\* suffix.
WorkingDir(root, id, suffix) == <<root, id, suffix>>

\* Line 218 in request p: compileAgent(config) starts rendering and building.
ConcCompileBegin(p) ==
    /\ cpc[p] = "ready"
    /\ workDir' = [workDir EXCEPT ![p] =
                     Some(WorkingDir(defaultOutputDir, Get(descId[p]), suffixNext))]
    /\ suffixNext' = suffixNext + 1
    /\ cpc' = [cpc EXCEPT ![p] = "compiling"]
    /\ UNCHANGED <<host, ctoolchain, installing, descId, uuidNext, concFixed>>

\* Line 218 in request p: the promise of compileAgent settles.
ConcCompileEnd(p) ==
    /\ cpc[p] = "compiling"
    /\ workDir' = [workDir EXCEPT ![p] = None]
    /\ cpc' = [cpc EXCEPT ![p] = "done"]
    /\ UNCHANGED <<host, ctoolchain, installing, descId, suffixNext, uuidNext,
                   concFixed>>

NextConc ==
    \E p \in Procs :
        \/ ConcCheckToolchain(p)
        \/ ConcInstallBegin(p)
        \/ ConcInstallEnd(p)
        \/ ConcReturnService(p)
        \/ ConcConvert(p)
        \/ \E q \in Procs : ConcTakeDescriptor(p, q)
        \/ ConcCompileBegin(p)
        \/ ConcCompileEnd(p)

SpecConc == InitConc /\ [][NextConc]_vars

\* C19: no tool is being installed by two requests at once.
C19_InstallsSerialized ==
    \A t \in Tools : Cardinality({p \in Procs : t \in installing[p]}) <= 1

ExpectedOutputDir ==
    IF env.serverless \/ fs[PersistentDir] = "blocked"
    THEN TransientDir ELSE PersistentDir

\* C21: once the compiler is constructed its output root is the transient
\* directory on a serverless host and the persistent one otherwise, the
\* transient one standing in only for a persistent one that cannot be
\* created; and getDefaultOutputDir reports the directory the compiler was
\* constructed with.
C21_OutputRootByEnvironment ==
    pc \in {"check", "install", "return", "service"} =>
        /\ compilerOutputDir = ExpectedOutputDir
        /\ IsSome(reportedDir) => Get(reportedDir) = compilerOutputDir

\* Off serverless, with a persistent directory that cannot be created, the
\* compiler got the transient one and the service reports it.
C21_Witness ==
    /\ pc = "service"
    /\ ~env.serverless
    /\ fs[PersistentDir] = "blocked"
    /\ compilerOutputDir = TransientDir
    /\ reportedDir = Some(TransientDir)

(***************************************************************************)
(* The register-agent route: POST, GET and OPTIONS of                      *)
(* src/src/app/api/register-agent/route.ts, one request after the other.   *)
(* Supabase is outside the sources: what getUser, upsert and select        *)
(* answer is any of the outcomes their callers distinguish.                *)
(***************************************************************************)

\* Requests received by the route.
MaxRequests == 2

Users == {"u1", "u2"}

Methods == {"POST", "GET", "OPTIONS"}

\* request.headers.get('authorization'): absent, or a value that does or
\* does not start with 'Bearer '.
AuthHeaders ==
    {None} \cup {Some([bearer |-> b, token |-> t]) : b \in BOOLEAN, t \in {"", "tok"}}

\* await request.json(): a rejection, or the truthiness of the three fields
\* destructured at line 53.
Bodies ==
    {[parsed |-> FALSE, identity |-> FALSE, personality |-> FALSE, capabilities |-> FALSE]}
    \cup [parsed : {TRUE}, identity : BOOLEAN, personality : BOOLEAN, capabilities : BOOLEAN]

Requests == [method : Methods, auth : AuthHeaders, body : Bodies]

\* What supabase.auth.getUser answers: it throws, reports an error, reports
\* no user, or reports a user.
GetUserOutcomes ==
    {[kind |-> "throws", user |-> None], [kind |-> "error", user |-> None],
     [kind |-> "nouser", user |-> None]}
    \cup {[kind |-> "user", user |-> Some(u)] : u \in Users}

StorageOutcomes == {"ok", "error", "throws"}

Response(status, text) == Some([status |-> status, text |-> text])

InitRoute ==
    /\ env = [serverless |-> FALSE, production |-> FALSE]
    /\ fs = [d \in Dirs |-> "exists"]
    /\ host = [t \in Tools |-> TRUE]
    /\ uiConfig = [isObject |-> FALSE, name |-> FALSE, personality |-> FALSE,
                   instructions |-> FALSE, settings |-> FALSE]
    /\ pc = "route"
    /\ defaultOutputDir = PersistentDir
    /\ toolchain = "none"
    /\ mockMode = FALSE
    /\ state = "Created"
    /\ error = "none"
    /\ descriptor = "none"
    /\ compilationLogs = <<>>
    /\ artifact = FALSE
    /\ retrieved = <<>>
    /\ console = <<>>
    /\ installOutcome = "none"
    /\ buildOutcome = "none"
    /\ mkdirCalls = 0
    /\ detectCalls = 0
    /\ installCalls = 0
    /\ missingEntries = 0
    /\ renderCalls = 0
    /\ buildCalls = 0
    /\ compiles = 0
    /\ compilerOutputDir = "none"
    /\ reportedDir = None
    /\ NormIdle
    /\ ConcIdle
    /\ SseIdle
    /\ AuthIdle
    /\ rreq \in Requests
    /\ rpc = "header"
    /\ ruser = None
    /\ rresp = None
    /\ rops = <<>>
    /\ rtable = [u \in Users |-> None]
    /\ rcount = 1

routeFixed == <<orchVars, dirVars, normVars, concVars, sseVars, authVars>>

\* The handler has answered; the next request comes in.
RouteReceive ==
    /\ rpc = "done"
    /\ rcount < MaxRequests
    /\ rreq' \in Requests
    /\ rpc' = "header"
    /\ ruser' = None
    /\ rresp' = None
    /\ rops' = <<>>
    /\ rcount' = rcount + 1
    /\ UNCHANGED <<rtable, routeFixed>>

\* A header that passes without the 'Bearer ' prefix.
BearerHeaderAny(h) == IsSome(h)

\* Lines 33 and 104: !authHeader || !authHeader.startsWith('Bearer ').
BearerHeader(h) == IsSome(h) /\ Get(h).bearer

\* Lines 153-161: OPTIONS answers 200 with the CORS headers.
RouteOptions ==
    /\ rpc = "header"
    /\ rreq.method = "OPTIONS"
    /\ rresp' = Response(200, "cors")
    /\ rpc' = "done"
    /\ UNCHANGED <<rreq, ruser, rops, rtable, rcount, routeFixed>>

\* Lines 32-40 and 103-111: the authorization header.
RouteCheckHeader ==
    /\ rpc = "header"
    /\ rreq.method \in {"POST", "GET"}
    /\ IF BearerHeader(rreq.auth)
       THEN rpc' = "getUser" /\ rresp' = rresp
       ELSE rpc' = "done" /\ rresp' = Response(401, "Authentication required")
    /\ UNCHANGED <<rreq, ruser, rops, rtable, rcount, routeFixed>>

\* Lines 45 and 116: error || !user.
UserVerified(o) == o.kind = "user"

\* Lines 43-50 and 114-121: the token is verified; a throw goes to the
\* catch of lines 91-97 or 143-149.
RouteGetUser ==
    /\ rpc = "getUser"
    /\ \E o \in GetUserOutcomes :
        IF o.kind = "throws"
        THEN /\ rresp' = Response(500, "thrown")
             /\ rpc' = "done"
             /\ ruser' = ruser
        ELSE IF UserVerified(o)
        THEN /\ ruser' = o.user
             /\ rpc' = IF rreq.method = "POST" THEN "body" ELSE "select"
             /\ rresp' = rresp
        ELSE /\ rresp' = Response(401, "Invalid or expired token")
             /\ rpc' = "done"
             /\ ruser' = ruser
    /\ UNCHANGED <<rreq, rops, rtable, rcount, routeFixed>>

\* Line 56: !identity || !personality.
BodyComplete(b) == b.identity /\ b.personality

\* Lines 53-61: the body is parsed and its required fields are tested.
RouteParseBody ==
    /\ rpc = "body"
    /\ IF ~rreq.body.parsed
       THEN rresp' = Response(500, "thrown") /\ rpc' = "done"
       ELSE IF BodyComplete(rreq.body)
       THEN rresp' = rresp /\ rpc' = "upsert"
       ELSE rresp' = Response(400, "Identity and personality are required")
            /\ rpc' = "done"
    /\ UNCHANGED <<rreq, ruser, rops, rtable, rcount, routeFixed>>

\* Lines 68 and 127: the row is addressed by user.id.
RowKey(user, req) == user

\* Lines 64-90: upsert on agent_configs with onConflict user_id.
RouteUpsert ==
    /\ rpc = "upsert"
    /\ LET key == RowKey(Get(ruser), rreq) IN
       /\ rops' = Append(rops, [op |-> "upsert", user_id |-> key])
       /\ \E o \in StorageOutcomes :
            /\ rtable' = IF o = "ok"
                         THEN [rtable EXCEPT ![key] =
                                 Some([user_id |-> key,
                                       capabilities |-> rreq.body.capabilities])]
                         ELSE rtable
            /\ rresp' = IF o = "ok" THEN Response(200, "saved")
                        ELSE IF o = "error" THEN Response(400, "insertError")
                        ELSE Response(500, "thrown")
    /\ rpc' = "done"
    /\ UNCHANGED <<rreq, ruser, rcount, routeFixed>>

\* Lines 124-142: select on agent_configs where user_id = user.id.
RouteSelect ==
    /\ rpc = "select"
    /\ rops' = Append(rops, [op |-> "select", user_id |-> RowKey(Get(ruser), rreq)])
    /\ \E o \in StorageOutcomes :
         rresp' = IF o = "ok" THEN Response(200, "retrieved")
                  ELSE IF o = "error" THEN Response(400, "selectError")
                  ELSE Response(500, "thrown")
    /\ rpc' = "done"
    /\ UNCHANGED <<rreq, ruser, rtable, rcount, routeFixed>>

NextRoute ==
    \/ RouteReceive
    \/ RouteOptions
    \/ RouteCheckHeader
    \/ RouteGetUser
    \/ RouteParseBody
    \/ RouteUpsert
    \/ RouteSelect

SpecRoute == InitRoute /\ [][NextRoute]_vars

Answered(status) == IsSome(rresp) /\ Get(rresp).status = status

\* C22: a request answered 401 has made no operation on agent_configs, and
\* so has any request without a Bearer header or without a verified user; a
\* POST whose body lacks identity or personality has made no upsert; and
\* every operation made is the one of the method, under the id of the user
\* the token was verified to.
C22_NoStorageBeforeChecks ==
    /\ Answered(401) => rops = <<>>
    /\ (rreq.auth = None \/ ~Get(rreq.auth).bearer \/ ruser = None) => rops = <<>>
    /\ (rreq.method = "POST" /\ ~(rreq.body.identity /\ rreq.body.personality))
          => rops = <<>>
    /\ \A i \in 1..Len(rops) :
          /\ rops[i].user_id = Get(ruser)
          /\ rops[i].op = IF rreq.method = "POST" THEN "upsert" ELSE "select"

\* A second request, a POST without personality from a verified user, was
\* answered 400 and made no operation, after the first one had stored a row.
C22_Witness ==
    /\ rcount = 2
    /\ rpc = "done"
    /\ rreq.method = "POST"
    /\ IsSome(ruser)
    /\ rreq.body.identity
    /\ ~rreq.body.personality
    /\ Answered(400)
    /\ rops = <<>>
    /\ \E u \in Users : IsSome(rtable[u])

(***************************************************************************)
(* The useSSE hook (src/src/hooks/useSSE.ts).  Each step is one React      *)
(* commit: the cleanups of the effects whose dependencies changed run      *)
(* first, in the order of the components, then the effects run again.      *)
(* SSEManager is outside the sources.  Its listener methods are taken to   *)
(* add and remove the function they are given and disconnect() to close    *)
(* the connection; what cleanup() does to the connection and what          *)
(* connect() does to an open one is left open both ways.                   *)
(***************************************************************************)

\* Components using the hook.
MaxHooks == 2

Hooks == 1..MaxHooks

Tokens == {"t1", "t2"}

Call(op, arg, by, site) == [op |-> op, arg |-> arg, by |-> by, site |-> site]

\* One call on the SSEManager.
ApplyCall(c, m) ==
    IF c.op = "addListener" THEN [m EXCEPT !.listeners = @ \cup {c.arg}]
    ELSE IF c.op = "removeListener" THEN [m EXCEPT !.listeners = @ \ {c.arg}]
    ELSE IF c.op = "addStatusListener" THEN [m EXCEPT !.statusListeners = @ \cup {c.arg}]
    ELSE IF c.op = "removeStatusListener" THEN [m EXCEPT !.statusListeners = @ \ {c.arg}]
    ELSE IF c.op = "connect"
         THEN [m EXCEPT !.conn = IF @ = "closed" \/ connectReplaces THEN c.arg ELSE @]
    ELSE IF c.op = "disconnect" THEN [m EXCEPT !.conn = "closed"]
    ELSE [m EXCEPT !.conn = IF cleanupCloses THEN "closed" ELSE @]

RECURSIVE ApplyCalls(_, _)
ApplyCalls(calls, m) ==
    IF calls = <<>> THEN m ELSE ApplyCalls(Tail(calls), ApplyCall(Head(calls), m))

\* The calls of all hooks, in the order of the components.
RECURSIVE CallsOfHooks(_, _)
CallsOfHooks(f, n) == IF n = 0 THEN <<>> ELSE CallsOfHooks(f, n - 1) \o f[n]

\* An effect that adds the new listener and leaves the old one registered.
MessageEffectCleanupNone(h) == <<>>

\* Lines 66-71: cleanup of the first effect.
MessageEffectCleanup(h) ==
    IF IsSome(msgRef[h])
    THEN <<Call("removeListener", Get(msgRef[h]), h, "effect")>>
    ELSE <<>>

\* Lines 32-64: the first effect makes a new listener and registers it.
MessageEffect(h, id) == <<Call("addListener", id, h, "effect")>>

\* Lines 84-89: cleanup of the second effect.
StatusEffectCleanup(h) ==
    IF IsSome(statusRef[h])
    THEN <<Call("removeStatusListener", Get(statusRef[h]), h, "effect")>>
    ELSE <<>>

\* Lines 76-82: the second effect.
StatusEffect(h, id) == <<Call("addStatusListener", id, h, "effect")>>

\* An auto-connect that does not look at the user.
ShouldAutoConnectAnyUser(auto, token) == auto

\* Line 96: autoConnect && user?.accessToken.
ShouldAutoConnect(auto, token) == auto /\ token # "none"

\* Lines 94-100: the third effect.
ConnectEffect(h, auto, token) ==
    IF ShouldAutoConnect(auto, token)
    THEN <<Call("connect", token, h, "effect")>>
    ELSE <<>>

\* Lines 102-112: cleanup of the third effect.
ConnectEffectCleanup(h) ==
    <<Call("cleanup", "none", h, "effect")>>
    \o (IF hasConnected[h] THEN <<Call("disconnect", "none", h, "effect")>> ELSE <<>>)

InitSSE ==
    /\ env = [serverless |-> FALSE, production |-> FALSE]
    /\ fs = [d \in Dirs |-> "exists"]
    /\ host = [t \in Tools |-> TRUE]
    /\ uiConfig = [isObject |-> FALSE, name |-> FALSE, personality |-> FALSE,
                   instructions |-> FALSE, settings |-> FALSE]
    /\ pc = "client"
    /\ defaultOutputDir = PersistentDir
    /\ toolchain = "none"
    /\ mockMode = FALSE
    /\ state = "Created"
    /\ error = "none"
    /\ descriptor = "none"
    /\ compilationLogs = <<>>
    /\ artifact = FALSE
    /\ retrieved = <<>>
    /\ console = <<>>
    /\ installOutcome = "none"
    /\ buildOutcome = "none"
    /\ mkdirCalls = 0
    /\ detectCalls = 0
    /\ installCalls = 0
    /\ missingEntries = 0
    /\ renderCalls = 0
    /\ buildCalls = 0
    /\ compiles = 0
    /\ compilerOutputDir = "none"
    /\ reportedDir = None
    /\ NormIdle
    /\ ConcIdle
    /\ RouteIdle
    /\ AuthIdle
    /\ mounted = [h \in Hooks |-> FALSE]
    /\ autoConn \in [Hooks -> BOOLEAN]
    /\ msgRef = [h \in Hooks |-> None]
    /\ statusRef = [h \in Hooks |-> None]
    /\ hasConnected = [h \in Hooks |-> FALSE]
    /\ mgr = [listeners |-> {}, statusListeners |-> {}, conn |-> "closed"]
    /\ accessToken \in {"none"} \cup Tokens
    /\ lastCalls = <<>>
    /\ lastStep = [kind |-> "none", hook |-> 0]
    /\ cleanupCloses \in BOOLEAN
    /\ connectReplaces \in BOOLEAN

sseFixed == <<orchVars, dirVars, normVars, concVars, routeVars, authVars,
              cleanupCloses, connectReplaces>>

\* Lines 32 and 76: every run of an effect makes a new function.  It is
\* named after its hook and a number that no registered listener of the
\* hook bears.
NewListener(h, registered) ==
    IF <<h, 1>> \in registered THEN <<h, 2>> ELSE <<h, 1>>

\* The calls of a step reach the manager in their order.
Commit(calls, kind, h) ==
    /\ lastCalls' = calls
    /\ mgr' = ApplyCalls(calls, mgr)
    /\ lastStep' = [kind |-> kind, hook |-> h]

\* Lines 15-113: first render of a component; the three effects run in order.
Mount(h) ==
    /\ ~mounted[h]
    /\ LET id == NewListener(h, mgr.listeners)
           sid == NewListener(h, mgr.statusListeners)
       IN
        /\ Commit(MessageEffect(h, id) \o StatusEffect(h, sid)
                    \o ConnectEffect(h, autoConn[h], accessToken), "mount", h)
        /\ msgRef' = [msgRef EXCEPT ![h] = Some(id)]
        /\ statusRef' = [statusRef EXCEPT ![h] = Some(sid)]
    /\ hasConnected' = [hasConnected EXCEPT ![h] = ShouldAutoConnect(autoConn[h], accessToken)]
    /\ mounted' = [mounted EXCEPT ![h] = TRUE]
    /\ UNCHANGED <<autoConn, accessToken, sseFixed>>

\* Line 72: a re-render with another onMessage, onCompilationUpdate or
\* onDeploymentUpdate runs the cleanup of the first effect and the effect.
RerenderCallbacks(h) ==
    /\ mounted[h]
    /\ LET id == NewListener(h, mgr.listeners) IN
        /\ Commit(MessageEffectCleanup(h) \o MessageEffect(h, id), "callbacks", h)
        /\ msgRef' = [msgRef EXCEPT ![h] = Some(id)]
    /\ UNCHANGED <<mounted, autoConn, statusRef, hasConnected, accessToken, sseFixed>>

\* Line 113: a re-render with another autoConnect runs the cleanup of the
\* third effect and the effect.
RerenderAutoConnect(h) ==
    /\ mounted[h]
    /\ autoConn' = [autoConn EXCEPT ![h] = ~@]
    /\ Commit(ConnectEffectCleanup(h) \o ConnectEffect(h, ~autoConn[h], accessToken),
              "autoConnect", h)
    /\ hasConnected' = [hasConnected EXCEPT ![h] = ShouldAutoConnect(~autoConn[h], accessToken)]
    /\ UNCHANGED <<mounted, msgRef, statusRef, accessToken, sseFixed>>

\* Line 113: the user's access token changes (login, logout, refresh); every
\* mounted hook re-renders: all cleanups of the third effect, then all effects.
ChangeToken(t) ==
    /\ t # accessToken
    /\ accessToken' = t
    /\ LET cleanups == [h \in Hooks |-> IF mounted[h] THEN ConnectEffectCleanup(h) ELSE <<>>]
           effects == [h \in Hooks |->
                          IF mounted[h] THEN ConnectEffect(h, autoConn[h], t) ELSE <<>>]
       IN  Commit(CallsOfHooks(cleanups, MaxHooks) \o CallsOfHooks(effects, MaxHooks),
                  "token", 0)
    /\ hasConnected' = [h \in Hooks |-> mounted[h] /\ ShouldAutoConnect(autoConn[h], t)]
    /\ UNCHANGED <<mounted, autoConn, msgRef, statusRef, sseFixed>>

\* Lines 66-71, 84-89, 102-112: unmount runs the three cleanups in order.
Unmount(h) ==
    /\ mounted[h]
    /\ Commit(MessageEffectCleanup(h) \o StatusEffectCleanup(h) \o ConnectEffectCleanup(h),
              "unmount", h)
    /\ mounted' = [mounted EXCEPT ![h] = FALSE]
    /\ msgRef' = [msgRef EXCEPT ![h] = None]
    /\ statusRef' = [statusRef EXCEPT ![h] = None]
    /\ hasConnected' = [hasConnected EXCEPT ![h] = FALSE]
    /\ UNCHANGED <<autoConn, accessToken, sseFixed>>

\* Lines 115-117: the connect callback the hook returns.
connect(h) ==
    /\ mounted[h]
    /\ Commit(<<Call("connect", IF accessToken = "none" THEN "anon" ELSE accessToken,
                      h, "callback")>>, "connect", h)
    /\ UNCHANGED <<mounted, autoConn, msgRef, statusRef, hasConnected,
                   accessToken, sseFixed>>

\* Lines 119-121: the disconnect callback the hook returns.
disconnect(h) ==
    /\ mounted[h]
    /\ Commit(<<Call("disconnect", "none", h, "callback")>>, "disconnect", h)
    /\ UNCHANGED <<mounted, autoConn, msgRef, statusRef, hasConnected,
                   accessToken, sseFixed>>

NextSSE ==
    \/ \E h \in Hooks : Mount(h)
    \/ \E h \in Hooks : RerenderCallbacks(h)
    \/ \E h \in Hooks : RerenderAutoConnect(h)
    \/ \E t \in {"none"} \cup Tokens : ChangeToken(t)
    \/ \E h \in Hooks : Unmount(h)
    \/ \E h \in Hooks : connect(h)
    \/ \E h \in Hooks : disconnect(h)

SpecSSE == InitSSE /\ [][NextSSE]_vars

ListenersOf(h) == {l \in mgr.listeners : l[1] = h}

StatusListenersOf(h) == {l \in mgr.statusListeners : l[1] = h}

\* C23: a mounted hook has exactly one message listener and exactly one
\* status listener registered, the ones its refs hold, however often its
\* callbacks changed; no step adds its new message listener before removing
\* the stale one; an unmounted hook has none registered.
C23_OneListenerPerHook ==
    /\ \A h \in Hooks :
          IF mounted[h]
          THEN /\ ListenersOf(h) = {Get(msgRef[h])}
               /\ StatusListenersOf(h) = {Get(statusRef[h])}
          ELSE /\ ListenersOf(h) = {}
               /\ StatusListenersOf(h) = {}
    /\ \A i, j \in 1..Len(lastCalls) :
          (/\ lastCalls[i].op = "addListener"
           /\ lastCalls[j].op = "removeListener"
           /\ lastCalls[i].by = lastCalls[j].by) => j < i

\* Hook 1 has just replaced the listener of its first re-render by the one
\* of its second; hook 2 is mounted with its own two listeners.
C23_Witness ==
    /\ mounted[1]
    /\ lastStep = [kind |-> "callbacks", hook |-> 1]
    /\ lastCalls = <<Call("removeListener", <<1, 2>>, 1, "effect"),
                     Call("addListener", <<1, 1>>, 1, "effect")>>
    /\ mgr.listeners = {<<1, 1>>, <<2, 1>>}
    /\ mgr.statusListeners = {<<1, 1>>, <<2, 1>>}
    /\ mounted[2]

\* The third effect of hook h is cleaned up by the step.
ConnectEffectCleanedUp(h) ==
    /\ mounted[h]
    /\ \/ ~mounted'[h]
       \/ accessToken' # accessToken
       \/ autoConn'[h] # autoConn[h]

\* C24: the effect connects only for a hook with autoConnect and a user
\* that has an access token, with that token; and when the effect of a hook
\* that connected is cleaned up, by unmount or by a change of the token, the
\* hook disconnects, and it does so before any connect of the same step.
C24_AutoConnectAndDisconnect ==
    [][/\ \A i \in 1..Len(lastCalls') :
             (lastCalls'[i].op = "connect" /\ lastCalls'[i].site = "effect") =>
                 /\ autoConn'[lastCalls'[i].by]
                 /\ accessToken' # "none"
                 /\ lastCalls'[i].arg = accessToken'
       /\ \A h \in Hooks :
             (hasConnected[h] /\ ConnectEffectCleanedUp(h)) =>
                 \E i \in 1..Len(lastCalls') :
                     /\ lastCalls'[i].op = "disconnect"
                     /\ lastCalls'[i].by = h
                     /\ \A j \in 1..Len(lastCalls') :
                            lastCalls'[j].op = "connect" => i < j]_vars

\* The token changed from one value to another under a hook that had
\* connected: cleanup, disconnect, then connect with the new token.
C24_Witness ==
    /\ lastStep.kind = "token"
    /\ accessToken = "t2"
    /\ Len(lastCalls) = 3
    /\ lastCalls[1].op = "cleanup"
    /\ lastCalls[2].op = "disconnect"
    /\ lastCalls[3] = Call("connect", "t2", 1, "effect")
    /\ mgr.conn = "t2"
    /\ hasConnected[1]

\* C25: when one of two mounted hooks is unmounted, the open connection the
\* other one connected to stays as it is.
C25_UnmountLeavesOthersConnected ==
    [][\A h, g \in Hooks :
          (/\ h # g
           /\ mounted[h] /\ ~mounted'[h]
           /\ mounted[g] /\ hasConnected[g]
           /\ mgr.conn # "closed") => mgr'.conn = mgr.conn]_vars

(***************************************************************************)
(* AuthProvider (route.ts, lines 189-224).  supabaseAuthService is outside *)
(* the sources: validateToken() and logout() settle either way, and the    *)
(* service may publish any AuthState to its subscribers at any time.       *)
(***************************************************************************)

\* States the auth service publishes to the provider.
MaxNotifications == 3

\* Lines 190-195: the fields of AuthState the provider's consumers read.
AuthStates == [loading : BOOLEAN, user : BOOLEAN]

InitAuth ==
    /\ env = [serverless |-> FALSE, production |-> FALSE]
    /\ fs = [d \in Dirs |-> "exists"]
    /\ host = [t \in Tools |-> TRUE]
    /\ uiConfig = [isObject |-> FALSE, name |-> FALSE, personality |-> FALSE,
                   instructions |-> FALSE, settings |-> FALSE]
    /\ pc = "client"
    /\ defaultOutputDir = PersistentDir
    /\ toolchain = "none"
    /\ mockMode = FALSE
    /\ state = "Created"
    /\ error = "none"
    /\ descriptor = "none"
    /\ compilationLogs = <<>>
    /\ artifact = FALSE
    /\ retrieved = <<>>
    /\ console = <<>>
    /\ installOutcome = "none"
    /\ buildOutcome = "none"
    /\ mkdirCalls = 0
    /\ detectCalls = 0
    /\ installCalls = 0
    /\ missingEntries = 0
    /\ renderCalls = 0
    /\ buildCalls = 0
    /\ compiles = 0
    /\ compilerOutputDir = "none"
    /\ reportedDir = None
    /\ NormIdle
    /\ ConcIdle
    /\ RouteIdle
    /\ SseIdle
    /\ authPc = "unmounted"
    /\ authLoading = TRUE
    /\ authUser = FALSE
    /\ subscribed = FALSE
    /\ storedUser \in BOOLEAN
    /\ validation = "none"
    /\ logoutCalls = 0
    /\ notifications = 0

authFixed == <<orchVars, dirVars, normVars, concVars, routeVars, sseVars>>

\* Lines 198-220: the effect subscribes and starts initializeAuth, which
\* runs up to its first await.
AuthMount ==
    /\ authPc = "unmounted"
    /\ subscribed' = TRUE
    /\ authPc' = "validating"
    /\ UNCHANGED <<authLoading, authUser, storedUser, validation, logoutCalls,
                   notifications, authFixed>>

\* Line 208: !isValid && supabaseAuthService.getCurrentUser().
LogoutNeeded(valid, stored) == valid = "false" /\ stored

\* Lines 207-217: validateToken() settles; initializeAuth goes on to the
\* logout or, through the finally block, to loading: false.
AuthValidated ==
    /\ authPc = "validating"
    /\ \E v \in {"true", "false", "throws"} :
        /\ validation' = v
        /\ IF LogoutNeeded(v, storedUser)
           THEN /\ logoutCalls' = logoutCalls + 1
                /\ authPc' = "loggingOut"
                /\ authLoading' = authLoading
           ELSE /\ logoutCalls' = logoutCalls
                /\ authPc' = "done"
                /\ authLoading' = FALSE
    /\ UNCHANGED <<authUser, subscribed, storedUser, notifications, authFixed>>

\* Lines 210-217: logout() settles, resolved or rejected; the finally block
\* sets loading: false.
AuthLogoutSettled ==
    /\ authPc = "loggingOut"
    /\ \E ok \in BOOLEAN : storedUser' = (storedUser /\ ~ok)
    /\ authPc' = "done"
    /\ authLoading' = FALSE
    /\ UNCHANGED <<authUser, subscribed, validation, logoutCalls, notifications,
                   authFixed>>

\* Lines 200-202: setAuthState(newState) replaces the whole state.
AfterNotification(old, new) == new

\* Lines 200-202: the service publishes a state.
AuthNotify ==
    /\ subscribed
    /\ notifications < MaxNotifications
    /\ \E n \in AuthStates :
        LET a == AfterNotification([loading |-> authLoading, user |-> authUser], n) IN
        /\ authLoading' = a.loading
        /\ authUser' = a.user
    /\ notifications' = notifications + 1
    /\ UNCHANGED <<authPc, subscribed, storedUser, validation, logoutCalls, authFixed>>

\* Line 223: the cleanup of the effect unsubscribes.
AuthUnmount ==
    /\ subscribed
    /\ subscribed' = FALSE
    /\ UNCHANGED <<authPc, authLoading, authUser, storedUser, validation,
                   logoutCalls, notifications, authFixed>>

NextAuth ==
    \/ AuthMount
    \/ AuthValidated
    \/ AuthLogoutSettled
    \/ AuthNotify
    \/ AuthUnmount

SpecAuth == InitAuth /\ [][NextAuth]_vars

\* C26: once initializeAuth has completed, loading is false and stays
\* false whatever the auth service publishes; and initializeAuth has called
\* logout only after a validation that returned false with a user in storage.
C26_LoadingFalseAfterInit ==
    /\ authPc = "done" => ~authLoading
    /\ logoutCalls > 0 => validation = "false"

====
